---- MODULE Spec2Model ----
(***************************************************************************)
(* Model of the SQL-result visualisation core of the chat frontend:       *)
(*   - normalizeSqlResult and its helpers (SqlResultVisualizer.tsx)        *)
(*   - pickEncodingKeys (vegaLiteFormatter.ts)                             *)
(*   - sortRows, the two row windows and pickChart of SqlResultVisualizer  *)
(*   - sqlTableToVegaLiteSpec and normalizeRow (vegaLiteFormatter.ts)      *)
(* JavaScript values are tagged records; JavaScript strings (texts,       *)
(* object keys, column names) are sequences of one-character strings.     *)
(***************************************************************************)
EXTENDS Integers, Sequences, FiniteSets, TLC

VARIABLES raw, table, enc, pc,
          controls, sortedRows, slicedRows, displayedRows, chart, shown,
          options, vega,
          req, fetchState, timer, controller, now, deadline, settled,
          spec, alive, containerRef, containers, effects,
          message, sessionId, isLoading, history, error, calls, submitted, crashed

\* what SqlResultVisualizer computes from the table and its controls
view == <<controls, sortedRows, slicedRows, displayedRows, chart, shown>>

\* the call of sqlTableToVegaLiteSpec
call == <<options, vega>>

\* the state of one apiRequest call
api == <<req, fetchState, timer, controller, now, deadline, settled>>

\* the state of one VegaLiteChart component
embed == <<spec, alive, containerRef, containers, effects>>

\* the state of the chat page
chat == <<message, sessionId, isLoading, history, error, calls, submitted, crashed>>

\* the state outside the visualizer and the spec generator
outside == <<api, embed, chat>>

core == <<raw, table, enc, pc, view, call>>

vars == <<core, outside>>

(***************************************************************************)
(* JavaScript values                                                       *)
(***************************************************************************)
Undef == [t |-> "undefined"]

Null == [t |-> "null"]

Bool(b) == [t |-> "boolean", v |-> b]

Num(n) == [t |-> "number", fin |-> TRUE, v |-> n]

\* a number that is not finite: JSON.parse("1e999") is Infinity
Infinity == [t |-> "number", fin |-> FALSE, v |-> 1]

NaN == [t |-> "number", fin |-> FALSE, v |-> 0]

Str(s) == [t |-> "string", v |-> s]

Arr(s) == [t |-> "array", v |-> s]

\* an object: its own properties, <<key, value>> pairs in insertion order
Obj(s) == [t |-> "object", v |-> s]

Range(s) == {s[i] : i \in DOMAIN s}

DigitChars == <<"0", "1", "2", "3", "4", "5", "6", "7", "8", "9">>

IsDigit(c) == c \in Range(DigitChars)

DigitVal(c) == (CHOOSE i \in DOMAIN DigitChars : DigitChars[i] = c) - 1

RECURSIVE DecVal(_)
\* the number a string of digits denotes
DecVal(s) ==
  IF s = <<>> THEN 0
  ELSE 10 * DecVal(SubSeq(s, 1, Len(s) - 1)) + DigitVal(s[Len(s)])

RECURSIVE DecStr(_)
\* String(n) of a natural number
DecStr(n) ==
  IF n < 10 THEN <<DigitChars[n + 1]>>
  ELSE DecStr(n \div 10) \o <<DigitChars[(n % 10) + 1]>>

\* a key that is a canonical array index ("0", "1", "10", not "01")
IsIndexKey(k) ==
  /\ Len(k) > 0
  /\ \A i \in DOMAIN k : IsDigit(k[i])
  /\ (Len(k) = 1 \/ k[1] # "0")

HasOwn(pairs, k) == \E i \in DOMAIN pairs : pairs[i][1] = k

GetOwn(pairs, k) ==
  IF HasOwn(pairs, k)
  THEN pairs[CHOOSE i \in DOMAIN pairs : pairs[i][1] = k][2]
  ELSE Undef

\* acc[k] = v on an ordinary object
SetProp(pairs, k, v) ==
  IF HasOwn(pairs, k)
  THEN [i \in DOMAIN pairs |-> IF pairs[i][1] = k THEN <<k, v>> ELSE pairs[i]]
  ELSE Append(pairs, <<k, v>>)

RECURSIVE SortIndexKeys(_)
\* a set of index keys as a sequence, ascending by numeric value
SortIndexKeys(S) ==
  IF S = {} THEN <<>>
  ELSE LET m == CHOOSE k \in S : \A o \in S : DecVal(k) <= DecVal(o)
       IN <<m>> \o SortIndexKeys(S \ {m})

RECURSIVE SelectSeq2(_, _)
\* the non-index keys of a pair sequence, in insertion order
SelectSeq2(pairs, i) ==
  IF i > Len(pairs) THEN <<>>
  ELSE (IF IsIndexKey(pairs[i][1]) THEN <<>> ELSE <<pairs[i][1]>>)
         \o SelectSeq2(pairs, i + 1)

\* own property order of an ordinary object: index keys ascending, then
\* the other string keys in insertion order
OwnKeys(pairs) ==
  SortIndexKeys({pairs[i][1] : i \in {j \in DOMAIN pairs : IsIndexKey(pairs[j][1])}})
    \o SelectSeq2(pairs, 1)

\* Object.keys(x) of a value other than null and undefined
ObjectKeys(x) ==
  CASE x.t = "object" -> OwnKeys(x.v)
    [] x.t \in {"array", "string"} -> [i \in 1 .. Len(x.v) |-> DecStr(i - 1)]
    [] OTHER -> <<>>

\* Object.keys(x) throws a TypeError
ObjectKeysThrows(x) == x.t \in {"null", "undefined"}

\* arr[idx] of an array, idx counted from 0
ArrAt(arr, idx) == IF idx < Len(arr) THEN arr[idx + 1] ELSE Undef

\* x?.[k]: property read that yields undefined on null and undefined
GetProp(x, k) ==
  CASE x.t = "object" -> GetOwn(x.v, k)
    [] x.t = "array" ->
         IF IsIndexKey(k) THEN ArrAt(x.v, DecVal(k)) ELSE Undef
    [] x.t = "string" ->
         IF IsIndexKey(k) /\ DecVal(k) < Len(x.v)
         THEN Str(<<x.v[DecVal(k) + 1]>>) ELSE Undef
    [] OTHER -> Undef

\* !x, had the empty array been falsy too
Falsy_EmptyArray(x) ==
  \/ x.t \in {"null", "undefined"}
  \/ x.t = "boolean" /\ ~x.v
  \/ x.t = "number" /\ x.fin /\ x.v = 0
  \/ x.t = "number" /\ ~x.fin /\ x.v = 0
  \/ x.t = "string" /\ x.v = <<>>
  \/ x.t = "array" /\ x.v = <<>>

\* !x
Falsy(x) ==
  \/ x.t \in {"null", "undefined"}
  \/ x.t = "boolean" /\ ~x.v
  \/ x.t = "number" /\ x.fin /\ x.v = 0
  \/ x.t = "number" /\ ~x.fin /\ x.v = 0
  \/ x.t = "string" /\ x.v = <<>>

isPlainObject(value) == value.t = "object"

\* typeof value === "number" alone
isFiniteNumber_AnyNumber(value) == value.t = "number"

isFiniteNumber(value) == value.t = "number" /\ value.fin

(***************************************************************************)
(* JSON.parse on a text: null, true, false, unsigned integers, strings     *)
(* without escapes, arrays and objects, with spaces between the tokens.    *)
(* A parse step yields [ok, val, pos]: pos is the index after the value.   *)
(***************************************************************************)
ParseFail == [ok |-> FALSE, val |-> Undef, pos |-> 0]

ParseOk(val, pos) == [ok |-> TRUE, val |-> val, pos |-> pos]

\* the first index from i on that holds no space (Len(s) + 1 if none)
SkipWs(s, i) ==
  CHOOSE j \in i .. Len(s) + 1 :
    /\ \A k \in i .. j - 1 : s[k] = " "
    /\ (j = Len(s) + 1 \/ s[j] # " ")

\* the literal lit stands at index i of s
LiteralAt(s, i, lit) ==
  /\ i + Len(lit) - 1 <= Len(s)
  /\ SubSeq(s, i, i + Len(lit) - 1) = lit

\* the index after the run of digits that starts at i
DigitsEnd(s, i) ==
  CHOOSE j \in i .. Len(s) + 1 :
    /\ \A k \in i .. j - 1 : IsDigit(s[k])
    /\ (j = Len(s) + 1 \/ ~IsDigit(s[j]))

\* a string token whose opening quote stands at index i
ParseString(s, i) ==
  IF \E k \in i + 1 .. Len(s) : s[k] = "\""
  THEN LET k == CHOOSE c \in i + 1 .. Len(s) :
                  s[c] = "\"" /\ \A d \in i + 1 .. c - 1 : s[d] # "\""
       IN ParseOk(Str(SubSeq(s, i + 1, k - 1)), k + 1)
  ELSE ParseFail

RECURSIVE ParseValue(_, _)
RECURSIVE ParseElems(_, _, _)
RECURSIVE ParseMembers(_, _, _)

ParseValue(s, i) ==
  LET j == SkipWs(s, i)
  IN IF j > Len(s) THEN ParseFail
     ELSE CASE s[j] = "[" ->
                 (LET k == SkipWs(s, j + 1)
                  IN IF k <= Len(s) /\ s[k] = "]"
                     THEN ParseOk(Arr(<<>>), k + 1)
                     ELSE ParseElems(s, j + 1, <<>>))
            [] s[j] = "{" ->
                 (LET k == SkipWs(s, j + 1)
                  IN IF k <= Len(s) /\ s[k] = "}"
                     THEN ParseOk(Obj(<<>>), k + 1)
                     ELSE ParseMembers(s, j + 1, <<>>))
            [] s[j] = "\"" -> ParseString(s, j)
            [] s[j] = "0" -> ParseOk(Num(0), j + 1)
            [] IsDigit(s[j]) /\ s[j] # "0" ->
                 (LET e == DigitsEnd(s, j)
                  IN ParseOk(Num(DecVal(SubSeq(s, j, e - 1))), e))
            [] LiteralAt(s, j, <<"n", "u", "l", "l">>) -> ParseOk(Null, j + 4)
            [] LiteralAt(s, j, <<"t", "r", "u", "e">>) -> ParseOk(Bool(TRUE), j + 4)
            [] LiteralAt(s, j, <<"f", "a", "l", "s", "e">>) -> ParseOk(Bool(FALSE), j + 5)
            [] OTHER -> ParseFail

\* the elements of an array, a value being expected at index i
ParseElems(s, i, acc) ==
  LET r == ParseValue(s, i)
  IN IF ~r.ok THEN ParseFail
     ELSE LET j == SkipWs(s, r.pos)
          IN IF j > Len(s) THEN ParseFail
             ELSE IF s[j] = "," THEN ParseElems(s, j + 1, Append(acc, r.val))
             ELSE IF s[j] = "]" THEN ParseOk(Arr(Append(acc, r.val)), j + 1)
             ELSE ParseFail

\* the members of an object, a key being expected at index i
ParseMembers(s, i, acc) ==
  LET j == SkipWs(s, i)
  IN IF j > Len(s) \/ s[j] # "\"" THEN ParseFail
     ELSE LET key == ParseString(s, j)
          IN IF ~key.ok THEN ParseFail
             ELSE LET c == SkipWs(s, key.pos)
                  IN IF c > Len(s) \/ s[c] # ":" THEN ParseFail
                     ELSE LET r == ParseValue(s, c + 1)
                          IN IF ~r.ok THEN ParseFail
                             ELSE LET e == SkipWs(s, r.pos)
                                      members == SetProp(acc, key.val.v, r.val)
                                  IN IF e > Len(s) THEN ParseFail
                                     ELSE IF s[e] = "," THEN ParseMembers(s, e + 1, members)
                                     ELSE IF s[e] = "}" THEN ParseOk(Obj(members), e + 1)
                                     ELSE ParseFail

\* JSON.parse(text): ok is FALSE where it throws a SyntaxError
JSONparse(text) ==
  LET r == ParseValue(text, 1)
  IN IF r.ok /\ SkipWs(text, r.pos) = Len(text) + 1
     THEN [ok |-> TRUE, val |-> r.val]
     ELSE [ok |-> FALSE, val |-> Undef]

\* text.indexOf("["), counted from 1; 0 stands for -1
IndexOfBracket(text) ==
  IF \E i \in DOMAIN text : text[i] = "["
  THEN CHOOSE i \in DOMAIN text : text[i] = "[" /\ \A k \in 1 .. i - 1 : text[k] # "["
  ELSE 0

\* JSON.parse of the whole text, not of the slice from the first "["
tryParseJsonArray_NoSlice(text) ==
  LET start == IndexOfBracket(text)
  IN IF start = 0 THEN Null
     ELSE LET parsed == JSONparse(text)
          IN IF parsed.ok /\ parsed.val.t = "array" THEN parsed.val ELSE Null

tryParseJsonArray(text) ==
  LET start == IndexOfBracket(text)
  IN IF start = 0 THEN Null
     ELSE LET slice == SubSeq(text, start, Len(text))
              parsed == JSONparse(slice)
          IN IF parsed.ok /\ parsed.val.t = "array" THEN parsed.val ELSE Null

(***************************************************************************)
(* normalizeSqlResult                                                      *)
(***************************************************************************)
Table(columns, rows) == [kind |-> "table", columns |-> columns, rows |-> rows]

NoTable == [kind |-> "null"]

\* an exception leaves the function
Thrown == [kind |-> "throw"]

K_columns == <<"c", "o", "l", "u", "m", "n", "s">>

K_rows == <<"r", "o", "w", "s">>

K_label == <<"l", "a", "b", "e", "l">>

K_value == <<"v", "a", "l", "u", "e">>

RECURSIVE ReduceRow_SkipUndefined(_, _, _, _)
\* the reduce, had it assigned only the values that are not undefined
ReduceRow_SkipUndefined(columns, vals, idx, acc) ==
  IF idx > Len(columns) THEN Obj(acc)
  ELSE ReduceRow_SkipUndefined(columns, vals, idx + 1,
         IF vals[idx] = Undef THEN acc ELSE SetProp(acc, columns[idx], vals[idx]))

RECURSIVE ReduceRow(_, _, _, _)
\* columns.reduce((acc, c, idx) => { acc[c] = vals[idx]; return acc }, {})
ReduceRow(columns, vals, idx, acc) ==
  IF idx > Len(columns) THEN Obj(acc)
  ELSE ReduceRow(columns, vals, idx + 1, SetProp(acc, columns[idx], vals[idx]))

RECURSIVE AddAll(_, _, _)
\* for (const k of keys) set.add(k), the set kept in insertion order
AddAll(set, keys, i) ==
  IF i > Len(keys) THEN set
  ELSE AddAll(IF keys[i] \in Range(set) THEN set ELSE Append(set, keys[i]), keys, i + 1)

RECURSIVE UnionFrom(_, _, _)
UnionFrom(rows, i, set) ==
  IF i > Len(rows) THEN set
  ELSE UnionFrom(rows, i + 1, AddAll(set, ObjectKeys(rows[i]), 1))

\* unionObjectKeys(rows) throws: Object.keys of null or undefined
unionObjectKeysThrows(rows) == \E i \in DOMAIN rows : ObjectKeysThrows(rows[i])

unionObjectKeys(rows) == UnionFrom(rows, 1, <<>>)

\* the length of the first element alone
MaxLenOf_First(rawArr) == Len(rawArr[1].v)

\* Math.max(...raw.map((r) => (Array.isArray(r) ? r.length : 0)))
MaxLenOf(rawArr) ==
  LET lens == {IF rawArr[i].t = "array" THEN Len(rawArr[i].v) ELSE 0 : i \in DOMAIN rawArr}
  IN CHOOSE m \in lens : \A n \in lens : n <= m

isDirectTable(obj) ==
  /\ isPlainObject(obj)
  /\ GetOwn(obj.v, K_columns).t = "array"
  /\ GetOwn(obj.v, K_rows).t = "array"
  /\ \A i \in DOMAIN GetOwn(obj.v, K_columns).v : GetOwn(obj.v, K_columns).v[i].t = "string"

\* the rows rebuilt on top of a copy of the source row, not of {}
normalizeDirect_KeepFields(obj) ==
  LET declared == GetOwn(obj.v, K_columns).v
      columns == [i \in DOMAIN declared |-> declared[i].v]
      rowsArray == GetOwn(obj.v, K_rows).v
      rows == [n \in DOMAIN rowsArray |->
                 LET rowObj == IF isPlainObject(rowsArray[n]) THEN rowsArray[n] ELSE Obj(<<>>)
                 IN ReduceRow(columns, [i \in DOMAIN columns |-> GetProp(rowObj, columns[i])], 1, rowObj.v)]
  IN Table(columns, rows)

normalizeDirect(obj) ==
  LET declared == GetOwn(obj.v, K_columns).v
      columns == [i \in DOMAIN declared |-> declared[i].v]
      rowsArray == GetOwn(obj.v, K_rows).v
      rows == [n \in DOMAIN rowsArray |->
                 LET rowObj == IF isPlainObject(rowsArray[n]) THEN rowsArray[n] ELSE Obj(<<>>)
                 IN ReduceRow(columns, [i \in DOMAIN columns |-> GetProp(rowObj, columns[i])], 1, <<>>)]
  IN Table(columns, rows)

normalizeRecords(rawArr) ==
  IF unionObjectKeysThrows(rawArr) THEN Thrown
  ELSE LET columns == unionObjectKeys(rawArr)
           rows == [n \in DOMAIN rawArr |->
                      ReduceRow(columns, [i \in DOMAIN columns |-> GetProp(rawArr[n], columns[i])], 1, <<>>)]
       IN Table(columns, rows)

normalizeTuples(rawArr) ==
  LET maxLen == MaxLenOf(rawArr)
      columns == IF maxLen = 2 THEN <<K_label, K_value>>
                 ELSE [i \in 1 .. maxLen |-> <<"c", "o", "l", "_">> \o DecStr(i)]
      rows == [n \in DOMAIN rawArr |->
                 LET arr == IF rawArr[n].t = "array" THEN rawArr[n].v ELSE <<>>
                 IN ReduceRow(columns, [i \in DOMAIN columns |-> ArrAt(arr, i - 1)], 1, <<>>)]
  IN Table(columns, rows)

RECURSIVE normalizeSqlResult(_)
normalizeSqlResult(r) ==
  IF Falsy(r) THEN NoTable
  ELSE IF isDirectTable(r) THEN normalizeDirect(r)
  ELSE IF r.t = "array" /\ r.v = <<>> THEN Table(<<>>, <<>>)
  ELSE IF r.t = "array" /\ isPlainObject(r.v[1]) THEN normalizeRecords(r.v)
  ELSE IF r.t = "array" /\ r.v[1].t = "array" THEN normalizeTuples(r.v)
  ELSE IF r.t = "string"
  THEN LET parsed == tryParseJsonArray(r.v)
       IN IF ~Falsy(parsed) THEN normalizeSqlResult(parsed) ELSE NoTable
  ELSE NoTable

(***************************************************************************)
(* pickEncodingKeys (vegaLiteFormatter.ts)                                 *)
(***************************************************************************)
RECURSIVE Filter(_, _, _)
\* columns.filter((c) => rows.some((r) => test(r[c]))), test by value type
Filter(columns, rows, numeric) ==
  IF columns = <<>> THEN <<>>
  ELSE LET c == Head(columns)
           some == \E n \in DOMAIN rows :
                     IF numeric THEN isFiniteNumber(GetProp(rows[n], c))
                     ELSE GetProp(rows[n], c).t = "string"
       IN (IF some THEN <<c>> ELSE <<>>) \o Filter(Tail(columns), rows, numeric)

\* s[0] ?? alt, for a sequence of column names
FirstOr(s, alt) == IF s # <<>> THEN Str(s[1]) ELSE alt

pickEncodingKeys(columns, rows) ==
  IF Len(columns) = 0 \/ Len(rows) = 0 THEN [xKey |-> Null, yKey |-> Null]
  ELSE LET numericCols == Filter(columns, rows, TRUE)
           textCols == Filter(columns, rows, FALSE)
       IN [xKey |-> FirstOr(textCols, FirstOr(columns, Null)),
           yKey |-> FirstOr(numericCols, Null)]

(***************************************************************************)
(* Coercions and array helpers of the language                             *)
(***************************************************************************)
RECURSIVE JoinWith(_, _)
\* texts.join(",")
JoinWith(texts, i) ==
  IF i > Len(texts) THEN <<>>
  ELSE (IF i > 1 THEN <<",">> ELSE <<>>) \o texts[i] \o JoinWith(texts, i + 1)

RECURSIVE JsString(_)
\* String(x)
JsString(x) ==
  CASE x.t = "string" -> x.v
    [] x.t = "number" ->
         IF x.fin THEN DecStr(x.v)
         ELSE IF x.v = 0 THEN <<"N", "a", "N">>
         ELSE <<"I", "n", "f", "i", "n", "i", "t", "y">>
    [] x.t = "boolean" ->
         IF x.v THEN <<"t", "r", "u", "e">> ELSE <<"f", "a", "l", "s", "e">>
    [] x.t = "null" -> <<"n", "u", "l", "l">>
    [] x.t = "undefined" -> <<"u", "n", "d", "e", "f", "i", "n", "e", "d">>
    [] x.t = "array" ->
         JoinWith([i \in DOMAIN x.v |->
                     IF x.v[i].t \in {"null", "undefined"} THEN <<>>
                     ELSE JsString(x.v[i])], 1)
    [] x.t = "object" ->
         <<"[", "o", "b", "j", "e", "c", "t", " ", "O", "b", "j", "e", "c", "t", "]">>

\* the text without the spaces at its ends
Trim(s) ==
  IF \A i \in DOMAIN s : s[i] = " " THEN <<>>
  ELSE LET lo == CHOOSE i \in DOMAIN s : s[i] # " " /\ \A k \in 1 .. i - 1 : s[k] = " "
           hi == CHOOSE i \in DOMAIN s : s[i] # " " /\ \A k \in i + 1 .. Len(s) : s[k] = " "
       IN SubSeq(s, lo, hi)

\* Number(text): unsigned decimal integers, Infinity and the empty text
StringToNumber(s) ==
  LET body == Trim(s)
  IN IF body = <<>> THEN Num(0)
     ELSE IF \A i \in DOMAIN body : IsDigit(body[i]) THEN Num(DecVal(body))
     ELSE IF body = <<"I", "n", "f", "i", "n", "i", "t", "y">> THEN Infinity
     ELSE NaN

\* Number(x)
JsNumber(x) ==
  CASE x.t = "number" -> x
    [] x.t = "undefined" -> NaN
    [] x.t = "null" -> Num(0)
    [] x.t = "boolean" -> IF x.v THEN Num(1) ELSE Num(0)
    [] x.t = "string" -> StringToNumber(x.v)
    [] x.t = "array" -> StringToNumber(JsString(x))
    [] x.t = "object" -> NaN

\* Object.values(r) of an ordinary object
ObjectValues(r) == [i \in DOMAIN OwnKeys(r.v) |-> GetOwn(r.v, OwnKeys(r.v)[i])]

\* the last elements in place of the first ones
SliceTo_FromEnd(s, end) ==
  LET stop == IF end < 0 THEN (IF Len(s) + end < 0 THEN 0 ELSE Len(s) + end)
              ELSE IF end > Len(s) THEN Len(s) ELSE end
  IN SubSeq(s, Len(s) - stop + 1, Len(s))

\* s.slice(0, end) for an integer end
SliceTo(s, end) ==
  LET stop == IF end < 0 THEN (IF Len(s) + end < 0 THEN 0 ELSE Len(s) + end)
              ELSE IF end > Len(s) THEN Len(s) ELSE end
  IN SubSeq(s, 1, stop)

\* the collation of the characters the labels are written in
Collation == <<" ", "0", "1", "2", "3", "4", "5", "6", "7", "8", "9", "a", "b", "x", "y">>

CollationRank(c) == CHOOSE i \in DOMAIN Collation : Collation[i] = c

RECURSIVE localeCompare(_, _)
\* la.localeCompare(lb): negative, zero or positive
localeCompare(la, lb) ==
  IF la = <<>> /\ lb = <<>> THEN 0
  ELSE IF la = <<>> THEN -1
  ELSE IF lb = <<>> THEN 1
  ELSE IF Head(la) = Head(lb) THEN localeCompare(Tail(la), Tail(lb))
  ELSE IF CollationRank(Head(la)) < CollationRank(Head(lb)) THEN -1 ELSE 1

(***************************************************************************)
(* sortRows and pickChart (SqlResultVisualizer.tsx)                        *)
(***************************************************************************)
\* vals.find(test) ?? dflt, test by value type
FindOr(vals, numeric, dflt) ==
  LET hits == {i \in DOMAIN vals :
                 IF numeric THEN isFiniteNumber(vals[i]) ELSE vals[i].t = "string"}
  IN IF hits = {} THEN dflt
     ELSE vals[CHOOSE i \in hits : \A j \in hits : i <= j]

getVal(r) == FindOr(ObjectValues(r), TRUE, Num(0))

getLabel(r) == FindOr(ObjectValues(r), FALSE, Str(<<>>))

\* the comparator, had its default branch been the ascending one
compareRows_DefaultAscending(a, b, sortBy) ==
  LET va == JsNumber(getVal(a)).v
      vb == JsNumber(getVal(b)).v
      la == JsString(getLabel(a))
      lb == JsString(getLabel(b))
  IN CASE sortBy = "value_asc" -> va - vb
       [] sortBy = "label_asc" -> localeCompare(la, lb)
       [] sortBy = "label_desc" -> localeCompare(lb, la)
       [] OTHER -> va - vb

\* the comparator of sortRows: negative, zero or positive
compareRows(a, b, sortBy) ==
  LET va == JsNumber(getVal(a)).v
      vb == JsNumber(getVal(b)).v
      la == JsString(getLabel(a))
      lb == JsString(getLabel(b))
  IN CASE sortBy = "value_asc" -> va - vb
       [] sortBy = "label_asc" -> localeCompare(la, lb)
       [] sortBy = "label_desc" -> localeCompare(lb, la)
       [] OTHER -> vb - va

\* one element put in front of the elements it ties with: sorted, not stable
InsertSorted_BeforeTies(sorted, r, sortBy) ==
  LET at == CHOOSE k \in 0 .. Len(sorted) :
              /\ \A i \in 1 .. k : compareRows(sorted[i], r, sortBy) < 0
              /\ (k = Len(sorted) \/ compareRows(sorted[k + 1], r, sortBy) >= 0)
  IN SubSeq(sorted, 1, at) \o <<r>> \o SubSeq(sorted, at + 1, Len(sorted))

\* one element put into a sorted sequence, behind the elements it does not precede
InsertSorted(sorted, r, sortBy) ==
  LET at == CHOOSE k \in 0 .. Len(sorted) :
              /\ \A i \in 1 .. k : compareRows(sorted[i], r, sortBy) <= 0
              /\ (k = Len(sorted) \/ compareRows(sorted[k + 1], r, sortBy) > 0)
  IN SubSeq(sorted, 1, at) \o <<r>> \o SubSeq(sorted, at + 1, Len(sorted))

RECURSIVE SortFrom(_, _, _, _)
\* Array.prototype.sort is a stable sort: the elements go in from left to right
SortFrom(rows, i, sorted, sortBy) ==
  IF i > Len(rows) THEN sorted
  ELSE SortFrom(rows, i + 1, InsertSorted(sorted, rows[i], sortBy), sortBy)

\* [...rows].sort(comparator)
sortRows(rows, sortBy) == SortFrom(rows, 1, <<>>, sortBy)

\* rows after rows.sort(comparator), the sort done on the array itself
inputAfterSort_InPlace(rows, sortBy) == sortRows(rows, sortBy)

\* rows after sortRows(rows, sortBy): the sort is done on the copy [...rows]
inputAfterSort(rows, sortBy) == rows

\* rows after rows.slice(0, end): slice builds a new array
inputAfterSlice(rows, end) == rows

\* rows after rows.map(project): map builds a new array, and both projections
\* write to an object they create
inputAfterProjection(rows) == rows

\* rows.slice(0, 30) of pickChart
ChartSample == 30

\* !key of a key that is null or a string
NoKey(key) == key.t = "null" \/ (key.t = "string" /\ key.v = <<>>)

\* { [xKey]: String(r[xKey] ?? ""), [yKey]: Number(r[yKey]) }
chartEntry(r, xKey, yKey) ==
  LET cat == GetProp(r, xKey.v)
  IN Obj(SetProp(<<<<xKey.v,
                     Str(JsString(IF cat.t \in {"null", "undefined"} THEN Str(<<>>) ELSE cat))>>>>,
                 yKey.v, JsNumber(GetProp(r, yKey.v))))

pickChart(columns, rows) ==
  IF Len(columns) = 0 \/ Len(rows) = 0
  THEN [xKey |-> Null, yKey |-> Null, chartData |-> <<>>]
  ELSE LET numericCols == Filter(columns, rows, TRUE)
           textCols == Filter(columns, rows, FALSE)
           yKey == FirstOr(numericCols, Null)
           xKey == FirstOr(textCols, FirstOr(columns, Null))
       IN IF NoKey(xKey) \/ NoKey(yKey)
          THEN [xKey |-> xKey, yKey |-> yKey, chartData |-> <<>>]
          ELSE [xKey |-> xKey, yKey |-> yKey,
                chartData |-> [i \in DOMAIN SliceTo(rows, ChartSample) |->
                                 chartEntry(rows[i], xKey, yKey)]]

\* what renderChart returns: one of two messages, a chart, or nothing
Message(text) == [kind |-> "message", text |-> text]

ChartOf(chartType, xKey, yKey, chartData) ==
  [kind |-> "chart", chartType |-> chartType, nameKey |-> xKey, dataKey |-> yKey,
   data |-> chartData]

\* renderChart without the test for a missing value key or empty data
renderChart_NoFallback(chartType, xKey, yKey, chartData) ==
  IF chartType = "table" THEN Message("table mode")
  ELSE ChartOf(chartType, xKey, yKey, chartData)

renderChart(chartType, xKey, yKey, chartData) ==
  LET noNumeric == NoKey(yKey) \/ Len(chartData) = 0
  IN IF chartType = "table" \/ noNumeric
     THEN IF noNumeric /\ chartType # "table" THEN Message("no numeric column")
          ELSE Message("table mode")
     ELSE IF chartType \in {"bar", "column", "donut", "treemap"}
          THEN ChartOf(chartType, xKey, yKey, chartData)
          ELSE [kind |-> "none"]

(***************************************************************************)
(* normalizeRow and sqlTableToVegaLiteSpec (vegaLiteFormatter.ts)          *)
(***************************************************************************)
\* the cell emitted as it is when it is no null, number or string
emitValue_KeepOthers(val) ==
  IF val.t \in {"null", "undefined"} THEN Null
  ELSE val

\* the value normalizeRow emits for a cell
emitValue(val) ==
  IF val.t \in {"null", "undefined"} THEN Null
  ELSE IF val.t = "number" /\ val.fin THEN val
  ELSE IF val.t = "string" THEN val
  ELSE Str(JsString(val))

RECURSIVE normalizeRowFrom(_, _, _, _)
\* for (const c of columns) out[c] = ...
normalizeRowFrom(row, columns, i, out) ==
  IF i > Len(columns) THEN Obj(out)
  ELSE normalizeRowFrom(row, columns, i + 1,
         SetProp(out, columns[i], emitValue(GetProp(row, columns[i]))))

normalizeRow(row, columns) == normalizeRowFrom(row, columns, 1, <<>>)

\* options.limit ?? 100
DefaultLimit == 100

\* a || b
Coalesce_Falsy(a, b) == IF Falsy(a) THEN b ELSE a

\* a ?? b
Coalesce(a, b) == IF a.t \in {"null", "undefined"} THEN b ELSE a

NoSpec == [kind |-> "null"]

Channel(key, type) == [field |-> key.v, type |-> type]

\* every chart type drawn with the column mapping
markAndEncoding_AllColumns(chartType, xKey, yKey) ==
  [mark |-> IF chartType \in {"line", "point", "area"} THEN chartType ELSE "bar",
   encoding |-> [x |-> Channel(xKey, "nominal"), y |-> Channel(yKey, "quantitative"),
                 theta |-> Channel(yKey, "quantitative"), color |-> Channel(xKey, "nominal")]]

\* the arc with its two roles exchanged
markAndEncoding_ArcSwapped(chartType, xKey, yKey) ==
  [mark |-> IF chartType \in {"line", "point", "area", "arc"} THEN chartType ELSE "bar",
   encoding |-> [x |-> Channel(IF chartType = "bar" THEN yKey ELSE xKey, "nominal"),
                 y |-> Channel(IF chartType = "bar" THEN xKey ELSE yKey, "quantitative"),
                 theta |-> Channel(xKey, "quantitative"), color |-> Channel(yKey, "nominal")]]

\* the mark and the encoding of a chart type
markAndEncoding(chartType, xKey, yKey) ==
  CASE chartType = "bar" ->
         [mark |-> "bar",
          encoding |-> [y |-> Channel(xKey, "nominal"), x |-> Channel(yKey, "quantitative")]]
    [] chartType = "column" ->
         [mark |-> "bar",
          encoding |-> [x |-> Channel(xKey, "nominal"), y |-> Channel(yKey, "quantitative")]]
    [] chartType \in {"line", "point"} ->
         [mark |-> chartType,
          encoding |-> [x |-> Channel(xKey, "nominal"), y |-> Channel(yKey, "quantitative")]]
    [] chartType = "area" ->
         [mark |-> "area",
          encoding |-> [x |-> Channel(xKey, "nominal"), y |-> Channel(yKey, "quantitative")]]
    [] chartType = "arc" ->
         [mark |-> "arc",
          encoding |-> [theta |-> Channel(yKey, "quantitative"),
                        color |-> Channel(xKey, "nominal")]]
    [] OTHER ->
         [mark |-> "bar",
          encoding |-> [x |-> Channel(xKey, "nominal"), y |-> Channel(yKey, "quantitative")]]

sqlTableToVegaLiteSpec(tbl, opts) ==
  LET columns == tbl.columns
      rows == tbl.rows
      limit == Coalesce(opts.limit, Num(DefaultLimit))
  IN IF Len(columns) = 0 \/ Len(rows) = 0 THEN NoSpec
     ELSE LET inferred == pickEncodingKeys(columns, rows)
              xKey == Coalesce(opts.xKey, inferred.xKey)
              yKey == Coalesce(opts.yKey, inferred.yKey)
          IN IF NoKey(xKey) \/ NoKey(yKey) THEN NoSpec
             ELSE LET sliced == SliceTo(rows, limit.v)
                      values == [i \in DOMAIN sliced |-> normalizeRow(sliced[i], columns)]
                      drawn == markAndEncoding(opts.chartType, xKey, yKey)
                  IN [kind |-> "spec", values |-> values,
                      mark |-> drawn.mark, encoding |-> drawn.encoding]

(***************************************************************************)
(* The raw payloads: JSON values, and texts that embed JSON                *)
(***************************************************************************)
\* most elements of an input array or of a rows array
MaxRows == 2

\* most entries of an input tuple
MaxTuple == 3

A == <<"a">>

B == <<"b">>

One == <<"1">>

X == <<"x">>

SeqsUpTo(S, n) == UNION {[1 .. k -> S] : k \in 0 .. n}

\* property sequences of at most two distinct keys
KeySeqs(K) ==
  {<<>>} \cup {<<k>> : k \in K} \cup {<<k[1], k[2]>> : k \in {q \in K \X K : q[1] # q[2]}}

Objects(K, V) ==
  UNION {{Obj([i \in DOMAIN ks |-> <<ks[i], f[i]>>]) : f \in [DOMAIN ks -> V]} : ks \in KeySeqs(K)}

RecordObjects ==
  Objects({A, B}, {Num(1), Str(X)})
    \cup {Obj(<<<<One, Num(1)>>>>), Obj(<<<<B, Str(X)>>, <<One, Num(1)>>>>), Obj(<<<<A, Null>>>>)}

RecordElems == RecordObjects \cup {Null, Num(1), Str(X), Arr(<<Num(1)>>)}

RecordArrays ==
  {Arr(<<o>> \o rest) : o \in RecordObjects, rest \in SeqsUpTo(RecordElems, MaxRows - 1)}

Tuples == {Arr(tp) : tp \in SeqsUpTo({Num(1), Str(X)}, MaxTuple)}

\* what follows the first tuple: tuples of every length, and other values
TupleElems ==
  {Arr([i \in 1 .. k |-> Num(1)]) : k \in 0 .. MaxTuple}
    \cup {Null, Obj(<<<<A, Num(1)>>>>), Str(<<"x", "x">>)}

TupleArrays ==
  {Arr(<<tp>> \o rest) : tp \in Tuples, rest \in SeqsUpTo(TupleElems, MaxRows - 1)}

ScalarArrays ==
  {Arr(<<Num(1)>>), Arr(<<Null>>), Arr(<<Str(X), Obj(<<<<A, Num(1)>>>>)>>),
   Arr(<<Num(1), Arr(<<Num(1)>>)>>), Arr(<<Bool(TRUE)>>)}

DeclaredColumns ==
  {<<>>, <<A>>, <<A, B>>, <<B, A>>, <<A, A>>, <<B, One>>}

DirectRowElems ==
  Objects({A, B}, {Num(1), Str(X)})
    \cup {Obj(<<<<A, Infinity>>>>), Obj(<<<<A, Infinity>>, <<B, Num(1)>>>>),
          Obj(<<<<One, Num(1)>>, <<B, Str(X)>>>>), Obj(<<<<A, Null>>>>), Null}

DirectTables ==
  {Obj(<<<<K_columns, Arr([i \in DOMAIN cs |-> Str(cs[i])])>>, <<K_rows, Arr(rs)>>>>) :
     cs \in DeclaredColumns, rs \in SeqsUpTo(DirectRowElems, MaxRows)}

\* objects that are no direct table
OtherObjects ==
  {Obj(<<>>), Obj(<<<<A, Num(1)>>>>),
   Obj(<<<<K_columns, Arr(<<Str(A)>>)>>>>),
   Obj(<<<<K_columns, Arr(<<Str(A)>>)>>, <<K_rows, Num(1)>>>>),
   Obj(<<<<K_columns, Str(A)>>, <<K_rows, Arr(<<>>)>>>>),
   Obj(<<<<K_columns, Arr(<<Str(A), Num(1)>>)>>, <<K_rows, Arr(<<Obj(<<<<A, Num(1)>>>>)>>)>>>>)}

Scalars == {Null, Bool(TRUE), Bool(FALSE), Num(0), Num(1), Infinity}

RECURSIVE Join(_, _)
\* the texts of a sequence joined by commas
Join(texts, i) ==
  IF i > Len(texts) THEN <<>>
  ELSE (IF i > 1 THEN <<",">> ELSE <<>>) \o texts[i] \o Join(texts, i + 1)

RECURSIVE Stringify(_)
\* a JSON text of a value (the payloads hold no value JSON cannot write)
Stringify(x) ==
  CASE x.t = "null" -> <<"n", "u", "l", "l">>
    [] x.t = "boolean" ->
         IF x.v THEN <<"t", "r", "u", "e">> ELSE <<"f", "a", "l", "s", "e">>
    [] x.t = "number" -> DecStr(x.v)
    [] x.t = "string" -> <<"\"">> \o x.v \o <<"\"">>
    [] x.t = "array" ->
         <<"[">> \o Join([i \in DOMAIN x.v |-> Stringify(x.v[i])], 1) \o <<"]">>
    [] x.t = "object" ->
         <<"{">>
           \o Join([i \in DOMAIN x.v |->
                      <<"\"">> \o x.v[i][1] \o <<"\"", ":">> \o Stringify(x.v[i][2])], 1)
           \o <<"}">>

\* the arrays the texts embed
EmbeddedElems ==
  {Num(1), Null, Obj(<<<<A, Num(1)>>>>), Obj(<<<<B, Str(X)>>, <<One, Num(1)>>>>),
   Arr(<<Str(X), Num(1)>>), Arr(<<Num(1)>>)}

EmbeddedArrays == {Arr(es) : es \in SeqsUpTo(EmbeddedElems, MaxRows)}

Prefixes == {<<>>, <<"p", " ">>, <<"p", "[">>}

Suffixes == {<<>>, <<" ">>, <<" ", "p">>}

EmbeddingTexts ==
  {Str(pre \o Stringify(arr) \o suf) :
     pre \in Prefixes, arr \in EmbeddedArrays, suf \in Suffixes}

\* texts without an array, and arrays cut short or malformed
OtherTexts ==
  {Str(<<>>), Str(<<"p">>), Str(<<"1">>), Str(<<"{", "}">>),
   Str(<<"[">>), Str(<<"[", "1">>), Str(<<"[", "1", ",", "]">>),
   Str(<<"[", ",", "1", "]">>), Str(<<"[", "p", "]">>),
   Str(<<"[", "{", "\"", "a", "\"", ":", "]">>), Str(<<"[", "0", "1", "]">>),
   Str(<<"[", " ", "]">>), Str(<<"[", " ", "1", " ", ",", " ", "1", " ", "]">>),
   Str(<<"[", "{", "\"", "a", "\"", ":", "1", ",", "\"", "a", "\"", ":", "\"", "x", "\"", "}", "]">>)}

Payloads ==
  Scalars \cup OtherObjects \cup DirectTables \cup {Arr(<<>>)} \cup RecordArrays
    \cup TupleArrays \cup ScalarArrays \cup EmbeddingTexts \cup OtherTexts

(***************************************************************************)
(* The state machine: a payload is normalized, then its encoding chosen    *)
(***************************************************************************)
Pending == [kind |-> "pending"]

NoEncoding == [xKey |-> Undef, yKey |-> Undef]

\* nothing rendered, no call made
NoControls == [chartType |-> "bar", sortBy |-> "value_desc", topN |-> 0, rowsToDisplay |-> 0]

NoShown == [kind |-> "pending"]

NoChart == [xKey |-> Undef, yKey |-> Undef, chartData |-> <<>>]

NoOptions == [chartType |-> "column", xKey |-> Undef, yKey |-> Undef, limit |-> Undef]

NoView ==
  /\ controls = NoControls
  /\ sortedRows = <<>>
  /\ slicedRows = <<>>
  /\ displayedRows = <<>>
  /\ chart = NoChart
  /\ shown = NoShown

NoCall == options = NoOptions /\ vega = Pending

\* no request made
NoRequest == [timeoutMs |-> 0, signal |-> FALSE]

NoApi ==
  /\ req = NoRequest
  /\ fetchState = "none"
  /\ timer = "none"
  /\ controller = [aborted |-> FALSE]
  /\ now = 0
  /\ deadline = 0
  /\ settled = Pending

\* the most spec objects a chart component is given
MaxSpecs == 3

SpecIds == 1 .. MaxSpecs

EmptyNode == [kind |-> "empty"]

NoEffect == [stage |-> "none", cancelled |-> FALSE, node |-> 0]

\* the component mounted with spec = null: no div, no effect
NoEmbed ==
  /\ spec = 0
  /\ alive = TRUE
  /\ containerRef = 0
  /\ containers = [n \in SpecIds |-> EmptyNode]
  /\ effects = [v \in SpecIds |-> NoEffect]

\* the id the mount effect gives the session
FirstSession == <<"s">>

\* the chat page after it mounted
NoChat ==
  /\ message = <<>>
  /\ sessionId = FirstSession
  /\ isLoading = FALSE
  /\ history = <<>>
  /\ error = Null
  /\ calls = {}
  /\ submitted = 0
  /\ crashed = FALSE

NoOutside == NoApi /\ NoEmbed /\ NoChat

Init ==
  /\ raw \in Payloads
  /\ table = Pending
  /\ enc = NoEncoding
  /\ pc = "raw"
  /\ NoView
  /\ NoCall
  /\ NoOutside

\* const table = normalizeSqlResult(data)
Normalize ==
  /\ pc = "raw"
  /\ table' = normalizeSqlResult(raw)
  /\ pc' = "normalized"
  /\ UNCHANGED <<raw, enc, view, call, outside>>

\* const { xKey, yKey } = pickEncodingKeys(columns, rows)
PickEncoding ==
  /\ pc = "normalized"
  /\ table.kind = "table"
  /\ enc' = pickEncodingKeys(table.columns, table.rows)
  /\ pc' = "encoded"
  /\ UNCHANGED <<raw, table, view, call, outside>>

Next == Normalize \/ PickEncoding

Spec == Init /\ [][Next]_vars

(***************************************************************************)
(* The state machine of SqlResultVisualizer: one render of a payload       *)
(* under a control state                                                   *)
(***************************************************************************)
\* most rows of a rendered payload
MaxSorted == 3

Y == <<"y">>

\* the records of the rendered arrays: values 1, 2, 2, 3, and a key that is an index
VizElems ==
  {Obj(<<<<A, Str(X)>>, <<B, Num(1)>>>>), Obj(<<<<A, Str(Y)>>, <<B, Num(2)>>>>),
   Obj(<<<<A, Str(X)>>, <<B, Num(2)>>>>), Obj(<<<<B, Num(3)>>>>),
   Obj(<<<<B, Num(3)>>, <<One, Num(1)>>>>)}

VizArrays == {Arr(es) : es \in SeqsUpTo(VizElems, MaxSorted)}

\* more rows than the chart samples
LongRows ==
  Obj(<<<<K_columns, Arr(<<Str(A), Str(B)>>)>>,
        <<K_rows, Arr([i \in 1 .. ChartSample + 1 |->
                        Obj(<<<<A, Str(X)>>, <<B, Num(i % 3)>>>>)])>>>>)

\* a payload that is no table, one that throws, records without a number, with a
\* column named "" and with a column that holds a number in one row only, and
\* direct tables
VizOthers ==
  {Null, Arr(<<Obj(<<<<A, Str(X)>>>>), Null>>),
   Arr(<<Obj(<<<<A, Str(X)>>>>)>>),
   Arr(<<Obj(<<<<<<>>, Str(X)>>, <<B, Num(1)>>>>)>>),
   Arr(<<Obj(<<<<A, Num(1)>>, <<B, Num(1)>>>>), Obj(<<<<A, Null>>, <<B, Num(3)>>>>)>>),
   LongRows,
   Obj(<<<<K_columns, Arr(<<Str(B), Str(One)>>)>>,
         <<K_rows, Arr(<<Obj(<<<<One, Str(Y)>>, <<B, Str(X)>>>>), Obj(<<<<B, Num(2)>>>>)>>)>>>>)}

VizPayloads == VizArrays \cup VizOthers

SortOrders == {"value_desc", "value_asc", "label_asc", "label_desc", "unrecognized"}

ChartKinds == {"bar", "column", "donut", "treemap", "table"}

\* <<topN, rowsToDisplay>>: the initial pair of the page, and pairs that cut the rows
Windows == {<<10, 25>>, <<0, 0>>, <<1, 2>>, <<2, 1>>}

Controls(kinds, orders, windows) ==
  {[chartType |-> k, sortBy |-> o, topN |-> w[1], rowsToDisplay |-> w[2]] :
     k \in kinds, o \in orders, w \in windows}

\* every order and window under one chart type, every chart type under one order
ControlStates ==
  Controls({"bar"}, SortOrders, Windows)
    \cup Controls(ChartKinds, {"value_desc"}, {<<10, 25>>, <<0, 0>>})

\* controls.rowsToDisplay || 25
DefaultRowsToDisplay == 25

InitViz ==
  /\ raw \in VizPayloads
  /\ table = Pending
  /\ enc = NoEncoding
  /\ pc = "mounted"
  /\ NoView
  /\ NoCall
  /\ NoOutside

\* SqlResultVisualizer({ data, controls }): the rows handed to the table and what
\* renderChart shows
Render ==
  /\ pc = "mounted"
  /\ \E c \in ControlStates :
     \E t \in {normalizeSqlResult(raw)} :
       /\ controls' = c
       /\ IF t.kind = "table"
          THEN \E sorted \in {sortRows(t.rows, c.sortBy)} :
               \E topN \in {IF c.topN # 0 THEN c.topN ELSE Len(sorted)} :
               \E rowsToDisplay \in {IF c.rowsToDisplay # 0 THEN c.rowsToDisplay
                                      ELSE DefaultRowsToDisplay} :
               \E sliced \in {SliceTo(sorted, topN)} :
               \E picked \in {pickChart(t.columns, sliced)} :
                 /\ table' = [t EXCEPT !.rows = inputAfterSort(t.rows, c.sortBy)]
                 /\ sortedRows' = inputAfterSlice(inputAfterSlice(sorted, topN), rowsToDisplay)
                 /\ slicedRows' = inputAfterProjection(inputAfterSlice(sliced, ChartSample))
                 /\ chart' = picked
                 /\ displayedRows' = SliceTo(sorted, rowsToDisplay)
                 /\ shown' = renderChart(c.chartType, picked.xKey, picked.yKey,
                                         picked.chartData)
                 /\ pc' = "rendered"
          ELSE /\ table' = t
               /\ UNCHANGED <<sortedRows, slicedRows, chart, displayedRows, shown>>
               /\ pc' = IF t.kind = "throw" THEN "thrown" ELSE "empty"
  /\ UNCHANGED <<raw, enc, call, outside>>

NextViz == Render

SpecViz == InitViz /\ [][NextViz]_vars

(***************************************************************************)
(* The state machine of the declarative path: a payload is normalized,     *)
(* then sqlTableToVegaLiteSpec is called on the table                       *)
(***************************************************************************)
Empty == <<>>

\* the rows of the tables: every kind of cell value, and a column named ""
VegaRowElems ==
  {Obj(<<<<A, Str(X)>>, <<B, Num(1)>>>>), Obj(<<<<A, Str(Y)>>, <<B, Num(2)>>>>),
   Obj(<<<<A, Bool(TRUE)>>, <<B, Infinity>>>>),
   Obj(<<<<A, Obj(<<<<A, Num(1)>>>>)>>, <<B, Arr(<<Num(1), Null, Str(X)>>)>>>>),
   Obj(<<<<A, Null>>>>), Obj(<<<<A, Bool(FALSE)>>, <<B, NaN>>>>),
   Obj(<<<<Empty, Str(X)>>, <<B, Num(1)>>>>)}

VegaColumns == {<<>>, <<A, B>>, <<B, A>>, <<Empty, B>>}

VegaTables ==
  {Obj(<<<<K_columns, Arr([i \in DOMAIN cs |-> Str(cs[i])])>>, <<K_rows, Arr(rs)>>>>) :
     cs \in VegaColumns, rs \in SeqsUpTo(VegaRowElems, MaxRows)}

\* one row more than the default limit
LongTable ==
  Obj(<<<<K_columns, Arr(<<Str(A), Str(B)>>)>>,
        <<K_rows, Arr([i \in 1 .. DefaultLimit + 1 |-> Obj(<<<<A, Str(X)>>, <<B, Num(i)>>>>)])>>>>)

VegaPayloads == VegaTables \cup {LongTable}

ChartTypes == {"bar", "column", "line", "area", "point", "arc", "unrecognized"}

\* <<options.xKey, options.yKey>>: omitted, null, given, and given as ""
KeyOptions == {<<Undef, Undef>>, <<Null, Null>>, <<Str(B), Str(A)>>, <<Str(Empty), Undef>>}

LimitOptions == {Undef, Num(0), Num(1)}

OptionStates ==
  {[chartType |-> ct, xKey |-> ks[1], yKey |-> ks[2], limit |-> lim] :
     ct \in ChartTypes, ks \in KeyOptions, lim \in LimitOptions}

InitVega ==
  /\ raw \in VegaPayloads
  /\ table = Pending
  /\ enc = NoEncoding
  /\ pc = "raw"
  /\ NoView
  /\ NoCall
  /\ NoOutside

\* sqlTableToVegaLiteSpec(table, options)
BuildSpec ==
  /\ pc = "normalized"
  /\ table.kind = "table"
  /\ \E o \in OptionStates :
     \E result \in {sqlTableToVegaLiteSpec(table, o)} :
       /\ options' = o
       /\ vega' = result
       /\ table' = IF result = NoSpec THEN table
                   ELSE [table EXCEPT !.rows =
                           inputAfterProjection(
                             inputAfterSlice(table.rows, Coalesce(o.limit, Num(DefaultLimit)).v))]
  /\ pc' = "built"
  /\ UNCHANGED <<raw, enc, view, outside>>

NextVega == Normalize \/ BuildSpec

SpecVega == InitVega /\ [][NextVega]_vars

(***************************************************************************)
(* The state machine of apiRequest: the fetch, the timer of withTimeout,   *)
(* the signal of the caller, and the passing of time                       *)
(***************************************************************************)
\* the latest time of the clock
MaxNow == 3

Timeouts == {0, 1, 2}

Requests == [timeoutMs : Timeouts, signal : BOOLEAN]

Resolved == [kind |-> "resolved"]

ApiError(status) == [kind |-> "ApiError", status |-> status]

\* the status of a response that is not ok
NotOkStatus == 500

NoCore ==
  /\ raw = Null
  /\ table = Pending
  /\ enc = NoEncoding
  /\ NoView
  /\ NoCall

InitApi ==
  /\ NoCore
  /\ pc = "idle"
  /\ NoOutside

\* apiRequest(options) up to its await: fetch(url, requestInit) is started with the
\* signal of the caller, and withTimeout arms a timer on a controller of its own
ApiRequest ==
  /\ pc = "idle"
  /\ \E r \in Requests :
       /\ req' = r
       /\ timer' = IF r.timeoutMs <= 0 THEN "none" ELSE "armed"
       /\ deadline' = now + r.timeoutMs
  /\ fetchState' = "pending"
  /\ controller' = [aborted |-> FALSE]
  /\ pc' = "awaiting"
  /\ UNCHANGED <<raw, table, enc, view, call, now, settled, embed, chat>>

\* a millisecond passes; an armed timer fires when it is due
Tick ==
  /\ now < MaxNow
  /\ ~(timer = "armed" /\ now >= deadline)
  /\ now' = now + 1
  /\ UNCHANGED <<core, req, fetchState, timer, controller, deadline, settled, embed, chat>>

\* () => controller.abort(): the controller of withTimeout, whose signal no fetch has
TimerFires ==
  /\ timer = "armed"
  /\ now >= deadline
  /\ controller' = [aborted |-> TRUE]
  /\ timer' = "fired"
  /\ UNCHANGED <<core, req, fetchState, now, deadline, settled, embed, chat>>

\* the fetch settles: a response that is ok or not, or a network error
FetchSettles ==
  /\ fetchState = "pending"
  /\ fetchState' \in {"ok", "not ok", "network error"}
  /\ UNCHANGED <<core, req, timer, controller, now, deadline, settled, embed, chat>>

\* the caller aborts its signal: the fetch rejects with an AbortError
CallerAborts ==
  /\ fetchState = "pending"
  /\ req.signal
  /\ fetchState' = "AbortError"
  /\ UNCHANGED <<core, req, timer, controller, now, deadline, settled, embed, chat>>

\* the awaits resume: finally { clearTimeout(timer) }, then the response is turned
\* into the result of apiRequest
Resume ==
  /\ pc = "awaiting"
  /\ fetchState \notin {"none", "pending"}
  /\ timer' = IF timer = "armed" THEN "cleared" ELSE timer
  /\ settled' = CASE fetchState = "ok" -> Resolved
                  [] fetchState = "not ok" -> ApiError(NotOkStatus)
                  [] fetchState = "AbortError" -> ApiError(499)
                  [] OTHER -> ApiError(0)
  /\ pc' = "done"
  /\ UNCHANGED <<raw, table, enc, view, call, req, fetchState, controller, now, deadline, embed, chat>>

NextApi == ApiRequest \/ Tick \/ TimerFires \/ FetchSettles \/ CallerAborts \/ Resume

SpecApi == InitApi /\ [][NextApi]_vars

(***************************************************************************)
(* The state machine of VegaLiteChart: the spec prop changes, the effect   *)
(* and its cleanup run, the import and vegaEmbed settle                    *)
(***************************************************************************)
ChartNode(v) == [kind |-> "chart", of |-> v]

ErrorNode(v) == [kind |-> "error", of |-> v]

\* the spec objects given so far
Given == {v \in SpecIds : effects[v].stage # "none"}

InitChart ==
  /\ NoCore
  /\ pc = "idle"
  /\ NoOutside

\* () => { cancelled = true; node.innerHTML = "" } of the effect of the current spec
CleanedEffects ==
  [v \in SpecIds |-> IF v = spec THEN [effects[v] EXCEPT !.cancelled = TRUE] ELSE effects[v]]

CleanedContainers ==
  IF spec = 0 THEN containers
  ELSE [containers EXCEPT ![effects[spec].node] = EmptyNode]

\* a render with a new spec object: the cleanup of the last effect, then the effect:
\* node.innerHTML = "" and import("vega-embed") is started
SetSpec ==
  /\ alive
  /\ \E v \in SpecIds \ Given :
       /\ v = Cardinality(Given) + 1
       /\ \E node \in {IF spec # 0 THEN containerRef ELSE v} :
            /\ spec' = v
            /\ containerRef' = node
            /\ effects' = [CleanedEffects EXCEPT
                             ![v] = [stage |-> "importing", cancelled |-> FALSE, node |-> node]]
            /\ containers' = [CleanedContainers EXCEPT ![node] = EmptyNode]
  /\ UNCHANGED <<core, api, chat, alive>>

\* a render with spec = null: the cleanup of the last effect, the div is gone, and
\* the effect returns at once
SetNull ==
  /\ alive
  /\ spec # 0
  /\ spec' = 0
  /\ containerRef' = 0
  /\ effects' = CleanedEffects
  /\ containers' = CleanedContainers
  /\ UNCHANGED <<core, api, chat, alive>>

\* the component is unmounted: the cleanup of the last effect
Unmount ==
  /\ alive
  /\ alive' = FALSE
  /\ spec' = 0
  /\ containerRef' = 0
  /\ effects' = CleanedEffects
  /\ containers' = CleanedContainers
  /\ UNCHANGED <<core, api, chat>>

\* .then(({ default: vegaEmbed }) => ...): vegaEmbed(node, spec) is called unless
\* the effect was cancelled
ImportResolves ==
  /\ \E v \in SpecIds :
       /\ effects[v].stage = "importing"
       /\ effects' = [effects EXCEPT
                        ![v].stage = IF effects[v].cancelled THEN "done" ELSE "embedding"]
  /\ UNCHANGED <<core, api, chat, spec, alive, containerRef, containers>>

\* vegaEmbed(node, spec) fulfils: the chart is in the node it was given
EmbedFulfils ==
  /\ \E v \in SpecIds :
       /\ effects[v].stage = "embedding"
       /\ effects' = [effects EXCEPT ![v].stage = "done"]
       /\ containers' = [containers EXCEPT ![effects[v].node] = ChartNode(v)]
  /\ UNCHANGED <<core, api, chat, spec, alive, containerRef>>

\* vegaEmbed(node, spec) rejects: .catch writes the message unless cancelled
EmbedRejects ==
  /\ \E v \in SpecIds :
       /\ effects[v].stage = "embedding"
       /\ effects' = [effects EXCEPT ![v].stage = "done"]
       /\ containers' = IF effects[v].cancelled THEN containers
                        ELSE [containers EXCEPT ![effects[v].node] = ErrorNode(v)]
  /\ UNCHANGED <<core, api, chat, spec, alive, containerRef>>

NextChart ==
  SetSpec \/ SetNull \/ Unmount \/ ImportResolves \/ EmbedFulfils \/ EmbedRejects

SpecChart == InitChart /\ [][NextChart]_vars

(***************************************************************************)
(* The state machine of the chat page: the form, onSubmit and the request  *)
(* it awaits                                                               *)
(***************************************************************************)
\* the most requests one page sends
MaxSubmits == 2

Messages == {<<>>, <<" ">>, <<"h">>, <<" ", "h">>}

SessionTexts == {<<>>, FirstSession}

SessionIdKey == <<"s", "e", "s", "s", "i", "o", "n", "_", "i", "d">>

\* what apiRequest resolves with: the parsed body, or null when the response is
\* not JSON
Responses ==
  {Obj(<<<<SessionIdKey, Str(<<"t">>)>>>>), Obj(<<>>), Null}

Statuses == {NotOkStatus, 499, 0}

Outcomes ==
  {[kind |-> "fulfilled", value |-> res] : res \in Responses}
    \cup {[kind |-> "rejected", status |-> st] : st \in Statuses}

ElapsedTimes == {Num(0), Num(1)}

MessageRequired == Str(<<"Vui long nhap message.">>)

\* `API error (${err.status}): ${err.message}`
ApiErrorText(status) == Str(<<"API error (">> \o DecStr(status) \o <<")">>)

\* `Error: ${(err as Error).message}` of the TypeError of a property read on null
TypeErrorText == Str(<<"Error: ", "TypeError">>)

\* sessionId.trim() || undefined
SessionOf(text) == IF Trim(text) = <<>> THEN Undef ELSE Str(Trim(text))

\* the item onSubmit prepends
PendingItem(id, trimmed, session) ==
  [id |-> id, message |-> trimmed, sessionId |-> SessionOf(session),
   response |-> Undef, error |-> Undef, elapsedMs |-> Undef]

HasItem(items, id) == \E i \in DOMAIN items : items[i].id = id

\* { ...h, response: res, sessionId: res.session_id ?? h.sessionId, elapsedMs }
WithResponse(h, res, elapsedMs) ==
  [h EXCEPT !.response = res,
            !.sessionId = Coalesce(GetProp(res, SessionIdKey), h.sessionId),
            !.elapsedMs = elapsedMs]

\* { ...h, error: message, elapsedMs }
WithError(h, text, elapsedMs) == [h EXCEPT !.error = text, !.elapsedMs = elapsedMs]

\* res.session_id throws a TypeError
ReadThrows(res) == res.t \in {"null", "undefined"}

InitChat ==
  /\ NoCore
  /\ pc = "idle"
  /\ NoOutside

\* onChange of the message box
EditMessage ==
  /\ ~crashed
  /\ \E m \in Messages \ {message} : message' = m
  /\ UNCHANGED <<core, api, embed, sessionId, isLoading, history, error, calls,
                 submitted, crashed>>

\* the Clear button of the form
ClearMessage ==
  /\ ~crashed
  /\ message' = <<>>
  /\ error' = Null
  /\ UNCHANGED <<core, api, embed, sessionId, isLoading, history, calls, submitted,
                 crashed>>

\* onChange of the session box
EditSession ==
  /\ ~crashed
  /\ \E text \in SessionTexts \ {sessionId} : sessionId' = text
  /\ UNCHANGED <<core, api, embed, message, isLoading, history, error, calls,
                 submitted, crashed>>

\* the Clear history button
ClearHistory ==
  /\ ~crashed
  /\ history' = <<>>
  /\ UNCHANGED <<core, api, embed, message, sessionId, isLoading, error, calls,
                 submitted, crashed>>

\* onSubmit up to its await; the submit button is disabled while isLoading
Submit ==
  /\ ~crashed
  /\ ~isLoading
  /\ \E trimmed \in {Trim(message)} :
       IF trimmed = <<>>
       THEN /\ error' = MessageRequired
            /\ UNCHANGED <<isLoading, history, calls, submitted>>
       ELSE /\ submitted < MaxSubmits
            /\ error' = Null
            /\ isLoading' = TRUE
            /\ submitted' = submitted + 1
            /\ history' = <<PendingItem(submitted + 1, trimmed, sessionId)>> \o history
            /\ calls' = calls \cup {submitted + 1}
  /\ UNCHANGED <<core, api, embed, message, sessionId, crashed>>

\* onSubmit after its await: classifyIntent settled
Settle ==
  /\ \E id \in calls, o \in Outcomes, elapsedMs \in ElapsedTimes :
       /\ calls' = calls \ {id}
       /\ IF o.kind = "fulfilled" /\ ReadThrows(o.value) /\ HasItem(history, id)
          THEN \* the updater of line 88 throws while the page renders
               /\ crashed' = TRUE
               /\ UNCHANGED <<sessionId, isLoading, history, error>>
          ELSE IF o.kind = "fulfilled" /\ ReadThrows(o.value)
          THEN \* line 101 throws, the catch block handles it
               /\ history' = [i \in DOMAIN history |->
                                IF history[i].id = id
                                THEN WithError(history[i], TypeErrorText, elapsedMs)
                                ELSE history[i]]
               /\ error' = TypeErrorText
               /\ isLoading' = FALSE
               /\ UNCHANGED <<sessionId, crashed>>
          ELSE IF o.kind = "fulfilled"
          THEN /\ history' = [i \in DOMAIN history |->
                                IF history[i].id = id
                                THEN WithResponse(history[i], o.value, elapsedMs)
                                ELSE history[i]]
               /\ sessionId' = IF Falsy(GetProp(o.value, SessionIdKey)) THEN sessionId
                               ELSE GetProp(o.value, SessionIdKey).v
               /\ isLoading' = FALSE
               /\ UNCHANGED <<error, crashed>>
          ELSE /\ history' = [i \in DOMAIN history |->
                                IF history[i].id = id
                                THEN WithError(history[i], ApiErrorText(o.status), elapsedMs)
                                ELSE history[i]]
               /\ error' = ApiErrorText(o.status)
               /\ isLoading' = FALSE
               /\ UNCHANGED <<sessionId, crashed>>
  /\ UNCHANGED <<core, api, embed, message, submitted>>

NextChat ==
  EditMessage \/ ClearMessage \/ EditSession \/ ClearHistory \/ Submit \/ Settle

SpecChat == InitChat /\ [][NextChat]_vars

(***************************************************************************)
(* Both paths side by side: a payload goes to the component or to the      *)
(* declarative generator                                                   *)
(***************************************************************************)
InitPaths == InitViz \/ InitVega

NextPaths == Render \/ Normalize \/ BuildSpec

SpecPaths == InitPaths /\ [][NextPaths]_vars

(***************************************************************************)
(* Properties of normalizeSqlResult                                        *)
(***************************************************************************)
normalized == pc # "raw"

NoDuplicates(s) == \A i, j \in DOMAIN s : i # j => s[i] # s[j]

RowKeys(row) == {row.v[i][1] : i \in DOMAIN row.v}

\* the row has the columns as its keys, each once
RowHasColumns(row, columns) ==
  /\ RowKeys(row) = Range(columns)
  /\ NoDuplicates([i \in DOMAIN row.v |-> row.v[i][1]])

isRecordArray(x) == x.t = "array" /\ x.v # <<>> /\ isPlainObject(x.v[1])

isTupleArray(x) == x.t = "array" /\ x.v # <<>> /\ x.v[1].t = "array"

\* the keys an element of a record array contributes
ElemKeys(e) == IF ObjectKeysThrows(e) THEN <<>> ELSE ObjectKeys(e)

\* where a key first occurs: <<element, place among the element's keys>>
FirstPos(elems, c) ==
  LET n == CHOOSE m \in DOMAIN elems :
             /\ c \in Range(ElemKeys(elems[m]))
             /\ \A o \in 1 .. m - 1 : c \notin Range(ElemKeys(elems[o]))
      k == CHOOSE q \in DOMAIN ElemKeys(elems[n]) : ElemKeys(elems[n])[q] = c
  IN <<n, k>>

Before(p, q) == p[1] < q[1] \/ (p[1] = q[1] /\ p[2] < q[2])

IsFirstOccurrenceUnion(columns, elems) ==
  /\ Range(columns) = UNION {Range(ElemKeys(elems[n])) : n \in DOMAIN elems}
  /\ NoDuplicates(columns)
  /\ \A i, j \in DOMAIN columns :
       i < j => Before(FirstPos(elems, columns[i]), FirstPos(elems, columns[j]))

\* C1: for every JSON value (mixed arrays whose first element is a plain
\* object and whose later elements are null, scalars or arrays, and strings
\* whose embedded text fails to parse, included) normalizeSqlResult returns
\* a table or null and never throws.
C1_NeverThrows == normalized => table.kind \in {"table", "null"}

\* C2: a record array normalizes to the first-occurrence-ordered union of
\* the keys of all its elements as columns, and to one row per element that
\* holds exactly those columns, a key missing from the element mapped to null.
C2_RecordArray ==
  (normalized /\ isRecordArray(raw)) =>
    /\ table.kind = "table"
    /\ IsFirstOccurrenceUnion(table.columns, raw.v)
    /\ Len(table.rows) = Len(raw.v)
    /\ \A n \in DOMAIN raw.v :
         /\ RowHasColumns(table.rows[n], table.columns)
         /\ \A c \in Range(table.columns) :
              GetOwn(table.rows[n].v, c) =
                IF c \in Range(ElemKeys(raw.v[n])) THEN GetProp(raw.v[n], c) ELSE Null

DeclaredOf(obj) ==
  [i \in DOMAIN GetOwn(obj.v, K_columns).v |-> GetOwn(obj.v, K_columns).v[i].v]

\* the direct table's result: the declared columns, every row rebuilt over
\* them, a column the source row lacks filled with `missing`
DirectTableResult(missing) ==
  LET source == GetOwn(raw.v, K_rows).v
  IN /\ table.kind = "table"
     /\ table.columns = DeclaredOf(raw)
     /\ Len(table.rows) = Len(source)
     /\ \A n \in DOMAIN source :
          /\ RowHasColumns(table.rows[n], table.columns)
          /\ \A c \in Range(table.columns) :
               GetOwn(table.rows[n].v, c) =
                 IF isPlainObject(source[n]) /\ HasOwn(source[n].v, c)
                 THEN GetOwn(source[n].v, c) ELSE missing

TupleLen(e) == IF e.t = "array" THEN Len(e.v) ELSE 0

\* C4: a tuple array, N being the greatest length of its elements, normalizes
\* to the columns label, value if N = 2 and col_1 .. col_N otherwise; each row
\* maps the k-th column to the k-th entry of its tuple, and the positions
\* beyond a shorter tuple's length are null or undefined.
C4_TupleArray ==
  (normalized /\ isTupleArray(raw)) =>
    /\ table.kind = "table"
    /\ \E N \in 0 .. MaxTuple :
         /\ \A n \in DOMAIN raw.v : TupleLen(raw.v[n]) <= N
         /\ \E n \in DOMAIN raw.v : TupleLen(raw.v[n]) = N
         /\ Len(table.columns) = N
         /\ IF N = 2 THEN table.columns = <<K_label, K_value>>
            ELSE \A k \in 1 .. N : table.columns[k] = <<"c", "o", "l", "_">> \o DecStr(k)
    /\ Len(table.rows) = Len(raw.v)
    /\ \A n \in DOMAIN raw.v : \A k \in DOMAIN table.columns :
         IF k <= TupleLen(raw.v[n])
         THEN GetOwn(table.rows[n].v, table.columns[k]) = raw.v[n].v[k]
         ELSE /\ HasOwn(table.rows[n].v, table.columns[k])
              /\ GetOwn(table.rows[n].v, table.columns[k]) \in {Null, Undef}

\* tuples of different lengths: a later one is the longest, and not of length 2
C4_Witness ==
  /\ pc = "normalized"
  /\ isTupleArray(raw)
  /\ table.kind = "table"
  /\ Len(table.columns) > Len(raw.v[1].v)
  /\ Len(table.columns) # 2
  /\ Len(raw.v[1].v) > 0

\* C5: a string without "[", or whose text from the first "[" to its end is
\* no valid JSON or parses to no array, normalizes to null; any other string
\* normalizes to what the parsed array normalizes to.
C5_EncodedString ==
  (normalized /\ raw.t = "string") =>
    IF \A i \in DOMAIN raw.v : raw.v[i] # "["
    THEN table = NoTable
    ELSE LET first == CHOOSE i \in DOMAIN raw.v :
                        raw.v[i] = "[" /\ \A k \in 1 .. i - 1 : raw.v[k] # "["
             rest == [k \in 1 .. Len(raw.v) - first + 1 |-> raw.v[first + k - 1]]
             parsed == JSONparse(rest)
         IN IF ~parsed.ok \/ parsed.val.t # "array"
            THEN table = NoTable
            ELSE table = normalizeSqlResult(parsed.val)

\* a string with prose before an array of records, normalized to their table
C5_Witness ==
  /\ pc = "normalized"
  /\ raw.t = "string"
  /\ raw.v # <<>>
  /\ raw.v[1] # "["
  /\ table.kind = "table"
  /\ Len(table.rows) = 2
  /\ table.columns # <<>>

\* C6: a string that embeds a JSON array in prose, with any text before the
\* array and any text after it, normalizes to what the embedded array
\* normalizes to.
C6_EmbeddedInProse ==
  (normalized /\ raw.t = "string") =>
    \A pre \in Prefixes, arr \in EmbeddedArrays, suf \in Suffixes :
      raw.v = pre \o Stringify(arr) \o suf => table = normalizeSqlResult(arr)

\* C7: the empty array normalizes to the empty table, never to null; null, a
\* number, a boolean, an object that is no direct table and a non-empty array
\* whose first element is neither an object nor an array normalize to null,
\* never to an empty table.
C7_Sentinels ==
  normalized =>
    /\ raw = Arr(<<>>) => table = Table(<<>>, <<>>)
    /\ ( \/ raw.t \in {"null", "number", "boolean"}
         \/ raw.t = "object" /\ ~isDirectTable(raw)
         \/ raw.t = "array" /\ raw.v # <<>> /\ raw.v[1].t \notin {"object", "array"} )
       => table = NoTable

C7_Witness == pc = "normalized" /\ raw = Arr(<<>>) /\ table.kind = "table"

\* the array that is normalized: the payload, or the array its text holds
SourceOf(x) == IF x.t = "string" THEN tryParseJsonArray(x.v) ELSE x

\* the source of row n holds a value for the k-th column
SourceHas(src, columns, n, k) ==
  IF isDirectTable(src)
  THEN LET e == GetOwn(src.v, K_rows).v[n]
       IN isPlainObject(e) /\ HasOwn(e.v, columns[k])
  ELSE IF isRecordArray(src) THEN columns[k] \in Range(ElemKeys(src.v[n]))
  ELSE k <= TupleLen(src.v[n])

C9_DistinctColumns ==
  (normalized /\ table.kind = "table") => NoDuplicates(table.columns)

(***************************************************************************)
(* Properties of pickEncodingKeys                                          *)
(***************************************************************************)
\* some row holds a finite number (numeric) or a string in the column
ColumnHolds(columns, rows, k, numeric) ==
  \E n \in DOMAIN rows :
    LET val == GetOwn(rows[n].v, columns[k])
    IN IF numeric THEN val.t = "number" /\ val.fin ELSE val.t = "string"

\* key names the first column that holds such a value, or is `none`
IsFirstHolding(key, columns, rows, numeric, none) ==
  IF \E k \in DOMAIN columns : ColumnHolds(columns, rows, k, numeric)
  THEN \E k \in DOMAIN columns :
         /\ key = Str(columns[k])
         /\ ColumnHolds(columns, rows, k, numeric)
         /\ \A j \in 1 .. k - 1 : ~ColumnHolds(columns, rows, j, numeric)
  ELSE key = none

\* C10: valueKey is the first column, in column order, for which some row
\* holds a finite number, or null if there is none; categoryKey is the first
\* column for which some row holds a string, or the first column if there is
\* none; with no columns or no rows both keys are null.
C10_SelectEncoding ==
  pc = "encoded" =>
    IF table.columns = <<>> \/ table.rows = <<>>
    THEN enc = [xKey |-> Null, yKey |-> Null]
    ELSE /\ IsFirstHolding(enc.yKey, table.columns, table.rows, TRUE, Null)
         /\ IsFirstHolding(enc.xKey, table.columns, table.rows, FALSE,
                           Str(table.columns[1]))

\* the first column holds a number that is not finite and no string, the
\* second a finite number: the value key is the second column, the category
\* key falls back to the first
C10_Witness ==
  /\ pc = "encoded"
  /\ Len(table.columns) = 2
  /\ \E n \in DOMAIN table.rows : GetOwn(table.rows[n].v, table.columns[1]) = Infinity
  /\ enc.yKey = Str(table.columns[2])
  /\ enc.xKey = Str(table.columns[1])
  /\ enc.xKey # enc.yKey


(***************************************************************************)
(* Properties of one render: sortRows, the two windows, pickChart          *)
(***************************************************************************)
rendered == pc = "rendered"

\* C11: for every table, sort order and top-N limit, the pair of keys pickChart
\* returns for the sorted, top-N-truncated rows equals the pair pickEncodingKeys
\* returns for the columns and the rows of the table.
C11_SameEncoding ==
  rendered =>
    LET declarative == pickEncodingKeys(table.columns, table.rows)
    IN chart.xKey = declarative.xKey /\ chart.yKey = declarative.yKey

Occurrences(s, r) == Cardinality({i \in DOMAIN s : s[i] = r})

IsPermutation(s, of) ==
  /\ Len(s) = Len(of)
  /\ \A r \in Range(s) \cup Range(of) : Occurrences(s, r) = Occurrences(of, r)

representativeValue(r) == JsNumber(getVal(r)).v

representativeLabel(r) == JsString(getLabel(r))

\* the rows of s are in the order sortBy asks for
InOrder(s, sortBy) ==
  \A i, j \in DOMAIN s :
    i < j =>
      CASE sortBy = "value_asc" -> representativeValue(s[i]) <= representativeValue(s[j])
        [] sortBy = "label_asc" ->
             localeCompare(representativeLabel(s[i]), representativeLabel(s[j])) <= 0
        [] sortBy = "label_desc" ->
             localeCompare(representativeLabel(s[i]), representativeLabel(s[j])) >= 0
        [] OTHER -> representativeValue(s[i]) >= representativeValue(s[j])

\* C12: sortRows returns a permutation of its input; under value_desc the
\* representative values never increase along it, under value_asc they never
\* decrease, under label_asc the representative labels never decrease in the
\* locale order, under label_desc they never increase; an unrecognized order
\* sorts as value_desc does.
C12_SortedPermutation ==
  rendered =>
    /\ IsPermutation(sortedRows, table.rows)
    /\ InOrder(sortedRows, controls.sortBy)
    /\ controls.sortBy \notin {"value_asc", "label_asc", "label_desc"}
         => sortedRows = sortRows(table.rows, "value_desc")

ValuesOf(s) == [i \in DOMAIN s |-> representativeValue(s[i])]

\* the values 1, 3, 2 come out 3, 2, 1 under an order that is not recognized
C12_Witness ==
  /\ rendered
  /\ controls.sortBy = "unrecognized"
  /\ ValuesOf(table.rows) = <<1, 3, 2>>
  /\ ValuesOf(sortedRows) = <<3, 2, 1>>

\* the comparison key of a row under an order
ComparisonKey(r, sortBy) ==
  IF sortBy \in {"label_asc", "label_desc"} THEN Str(representativeLabel(r))
  ELSE Num(representativeValue(r))

\* the rows of s that have the key k, in their order in s
RowsWithKey(s, k, sortBy) ==
  LET HasKey(r) == ComparisonKey(r, sortBy) = k
  IN SelectSeq(s, HasKey)

\* C13: under each of the four orders, the rows that have equal comparison keys
\* appear in the output of sortRows in the relative order they have in its input.
C13_Stable ==
  rendered =>
    \A n \in DOMAIN table.rows :
      LET k == ComparisonKey(table.rows[n], controls.sortBy)
      IN RowsWithKey(sortedRows, k, controls.sortBy)
           = RowsWithKey(table.rows, k, controls.sortBy)

\* two different rows tie, and the sort moved a row past them
C13_Witness ==
  /\ rendered
  /\ controls.sortBy \in {"value_desc", "value_asc", "label_asc", "label_desc"}
  /\ sortedRows # table.rows
  /\ \E i, j \in DOMAIN table.rows :
       /\ i < j
       /\ table.rows[i] # table.rows[j]
       /\ ComparisonKey(table.rows[i], controls.sortBy)
            = ComparisonKey(table.rows[j], controls.sortBy)

\* the value of the first column, in column order, that holds a value of the type in r
FirstInColumnOrder(r, columns, numeric, dflt) ==
  LET hits == {i \in DOMAIN columns :
                 IF numeric THEN isFiniteNumber(GetProp(r, columns[i]))
                 ELSE GetProp(r, columns[i]).t = "string"}
  IN IF hits = {} THEN dflt
     ELSE GetProp(r, columns[CHOOSE i \in hits : \A j \in hits : i <= j])

\* C14: for every row of a normalized table, the representative value is the value
\* of the first column, in the column order of the table, that holds a finite
\* number in the row (0 if none), and the representative label is the value of the
\* first column in column order that holds a string ("" if none), whatever the
\* column names are.
C14_KeysFollowColumnOrder ==
  rendered =>
    \A n \in DOMAIN table.rows :
      /\ getVal(table.rows[n]) = FirstInColumnOrder(table.rows[n], table.columns, TRUE, Num(0))
      /\ getLabel(table.rows[n])
           = FirstInColumnOrder(table.rows[n], table.columns, FALSE, Str(<<>>))

Min(a, b) == IF a < b THEN a ELSE b

IsPrefix(s, of) == Len(s) <= Len(of) /\ s = SubSeq(of, 1, Len(s))

\* C15: the rows handed to the chart and the rows handed to the table are both
\* prefixes of the sorted rows of the table, the first as long as topN allows (all
\* rows when topN is 0), the second as long as rowsToDisplay allows (25 when it is
\* 0); so the shorter of the two is a prefix of the longer.
C15_WindowsArePrefixes ==
  rendered =>
    /\ sortedRows = sortRows(table.rows, controls.sortBy)
    /\ IsPrefix(slicedRows, sortedRows)
    /\ IsPrefix(displayedRows, sortedRows)
    /\ Len(slicedRows)
         = Min(Len(sortedRows), IF controls.topN = 0 THEN Len(sortedRows) ELSE controls.topN)
    /\ Len(displayedRows)
         = Min(Len(sortedRows),
               IF controls.rowsToDisplay = 0 THEN DefaultRowsToDisplay
               ELSE controls.rowsToDisplay)
    /\ IsPrefix(slicedRows, displayedRows) \/ IsPrefix(displayedRows, slicedRows)

\* the sort changed the order, and the two windows and the sorted rows differ in length
C15_Witness ==
  /\ rendered
  /\ sortedRows # table.rows
  /\ Len(slicedRows) < Len(displayedRows)
  /\ Len(displayedRows) < Len(sortedRows)


(***************************************************************************)
(* Properties of sqlTableToVegaLiteSpec and normalizeRow                   *)
(***************************************************************************)
built == pc = "built"

\* the keys the call resolves: the option that is given, else the inferred key
CategoryKey == Coalesce(options.xKey, pickEncodingKeys(table.columns, table.rows).xKey)

ValueKey == Coalesce(options.yKey, pickEncodingKeys(table.columns, table.rows).yKey)

\* C16: sqlTableToVegaLiteSpec returns null if the table has no columns or no
\* rows, or if the category key or the value key (the option, else the inferred
\* key) is null, and returns a spec in every other case.
C16_NullOnlyWithoutKeys ==
  built =>
    (vega = NoSpec
       <=> \/ table.columns = <<>>
           \/ table.rows = <<>>
           \/ CategoryKey = Null
           \/ ValueKey = Null)

\* the limit of the call: 100 when none is given
LimitOf(opts) == IF opts.limit.t = "undefined" THEN DefaultLimit ELSE opts.limit.v

\* C17: the data of a spec are the first min(limit, number of rows) rows of the
\* table in the order given, limit being 100 when none is given: the i-th value is
\* the i-th row as normalizeRow emits it, for every chart type.
C17_DataIsPrefix ==
  (built /\ vega.kind = "spec") =>
    /\ Len(vega.values) = Min(LimitOf(options), Len(table.rows))
    /\ \A i \in DOMAIN vega.values :
         vega.values[i] = normalizeRow(table.rows[i], table.columns)

\* a table of more rows than the default limit, cut to the default limit
C17_Witness ==
  /\ built
  /\ vega.kind = "spec"
  /\ options.limit = Undef
  /\ Len(table.rows) > DefaultLimit
  /\ Len(vega.values) = DefaultLimit
  /\ vega.values[DefaultLimit] # vega.values[1]

OnAxes(horizontal, vertical) ==
  /\ vega.encoding.x.field = horizontal.v
  /\ vega.encoding.y.field = vertical.v

\* C18: a bar spec has the category key on y and the value key on x; a column,
\* line, point or area spec has the category key on x and the value key on y; the
\* mark of a line or point spec is the chart type asked for, that of an area spec
\* is area; a chart type that is not recognized gives the spec of a column chart.
C18_AxisMapping ==
  (built /\ vega.kind = "spec") =>
    CASE options.chartType = "bar" ->
           /\ OnAxes(ValueKey, CategoryKey)
           /\ vega.encoding.y.type = "nominal"
           /\ vega.encoding.x.type = "quantitative"
      [] options.chartType = "column" ->
           /\ OnAxes(CategoryKey, ValueKey)
           /\ vega.encoding.x.type = "nominal"
           /\ vega.encoding.y.type = "quantitative"
      [] options.chartType \in {"line", "point"} ->
           OnAxes(CategoryKey, ValueKey) /\ vega.mark = options.chartType
      [] options.chartType = "area" ->
           OnAxes(CategoryKey, ValueKey) /\ vega.mark = "area"
      [] options.chartType = "arc" -> TRUE
      [] OTHER ->
           /\ OnAxes(CategoryKey, ValueKey)
           /\ vega = sqlTableToVegaLiteSpec(table, [options EXCEPT !.chartType = "column"])

\* a bar spec of two different keys
C18_Witness ==
  /\ built
  /\ vega.kind = "spec"
  /\ options.chartType = "bar"
  /\ CategoryKey # ValueKey
  /\ vega.encoding.y.field = CategoryKey.v

\* C19: every arc spec has the value key as the field of theta and the category
\* key as the field of color, whatever the order of the columns of the table.
C19_ArcRoles ==
  (built /\ vega.kind = "spec" /\ options.chartType = "arc") =>
    /\ vega.encoding.theta.field = ValueKey.v
    /\ vega.encoding.color.field = CategoryKey.v

\* an arc spec of a table whose first column is the value column, keys inferred
C19_Witness ==
  /\ built
  /\ vega.kind = "spec"
  /\ options.chartType = "arc"
  /\ options.xKey = Undef
  /\ options.yKey = Undef
  /\ table.columns[1] = ValueKey.v
  /\ vega.encoding.theta.field = table.columns[1]
  /\ vega.encoding.color.field = table.columns[2]

\* what the claim says is emitted for a source value
CoercionOf(v) ==
  IF v.t \in {"null", "undefined"} THEN Null
  ELSE IF (v.t = "number" /\ v.fin) \/ v.t = "string" THEN v
  ELSE Str(JsString(v))

IsEmittable(e) == e = Null \/ (e.t = "number" /\ e.fin) \/ e.t = "string"

IsProjection(entry, r, xKey, yKey) ==
  LET cat == GetProp(r, xKey.v)
  IN /\ entry.t = "object"
     /\ {entry.v[k][1] : k \in DOMAIN entry.v} = {xKey.v, yKey.v}
     /\ GetOwn(entry.v, yKey.v) = JsNumber(GetProp(r, yKey.v))
     /\ xKey # yKey =>
          GetOwn(entry.v, xKey.v)
            = Str(JsString(IF cat.t \in {"null", "undefined"} THEN Str(<<>>) ELSE cat))

\* C21: for every table whose category key and value key are not null, chartData
\* holds one entry for each of the first 30 sorted-and-truncated rows, in their
\* order, and the entry is the projection of the row: the category value as a
\* string under the category key, the value as a number under the value key.
C21_ChartData ==
  (rendered /\ chart.xKey # Null /\ chart.yKey # Null) =>
    /\ Len(chart.chartData) = Min(ChartSample, Len(slicedRows))
    /\ \A i \in DOMAIN chart.chartData :
         IsProjection(chart.chartData[i], slicedRows[i], chart.xKey, chart.yKey)

noNumeric == chart.yKey = Null \/ chart.chartData = <<>>

\* C22: whenever the value key is null or chartData is empty, renderChart shows the
\* "no numeric column" message and no chart, under each of the chart types bar,
\* column, donut, treemap and table; a chart is shown only when the value key is
\* not null, chartData is not empty and the chart type is not table.
C22_FallbackAlways ==
  rendered =>
    /\ noNumeric => shown = Message("no numeric column")
    /\ shown.kind = "chart" => (~noNumeric /\ controls.chartType # "table")

\* C22 as the code has it: without a value key or without chartData, renderChart
\* shows the "no numeric column" message under bar, column, donut and treemap and
\* the "table mode" message under table, and no chart; with both it shows the
\* "table mode" message under table and else the chart of the type asked for, on
\* chartData, the category key and the value key.
C22_Fallback ==
  rendered =>
    /\ (noNumeric /\ controls.chartType # "table") => shown = Message("no numeric column")
    /\ controls.chartType = "table" => shown = Message("table mode")
    /\ (~noNumeric /\ controls.chartType # "table") =>
         shown = ChartOf(controls.chartType, chart.xKey, chart.yKey, chart.chartData)

\* rows without a number, a chart asked for, the message shown
C22_Witness ==
  /\ rendered
  /\ table.rows # <<>>
  /\ chart.yKey = Null
  /\ controls.chartType = "treemap"
  /\ shown = Message("no numeric column")

\* the plotted values along chartData
Plotted == [i \in DOMAIN chart.chartData |-> GetProp(chart.chartData[i], chart.yKey.v)]

\* C24: under value_desc and value_asc, the value of every row of the chart sample
\* under the value key is the representative value sortRows ordered the row by, so
\* the plotted values never increase (value_desc) or never decrease (value_asc)
\* along chartData.
C24_SortedIsPlotted ==
  (rendered /\ controls.sortBy \in {"value_desc", "value_asc"} /\ chart.chartData # <<>>) =>
    /\ \A i \in DOMAIN Plotted : Plotted[i] = Num(representativeValue(slicedRows[i]))
    /\ \A i, j \in DOMAIN Plotted :
         i < j =>
           /\ Plotted[i].fin /\ Plotted[j].fin
           /\ IF controls.sortBy = "value_desc" THEN Plotted[i].v >= Plotted[j].v
              ELSE Plotted[i].v <= Plotted[j].v


C25_TimeoutEnforced ==
  req.timeoutMs > 0 =>
    /\ timer = "fired" =>
         /\ fetchState = "AbortError"
         /\ settled \in {Pending, ApiError(499)}
    /\ pc = "awaiting" => now <= deadline


(***************************************************************************)
(* Property of VegaLiteChart                                               *)
(***************************************************************************)
Settled == \A v \in SpecIds : effects[v].stage \in {"none", "done"}

\* C26: the container on the page never holds a chart or an error message of a spec
\* whose cleanup has run, under every order of the import, vegaEmbed and the
\* cleanup; and once nothing is pending it holds the chart or the error message of
\* the current spec.
C26_NoStaleRender ==
  containerRef # 0 =>
    /\ containers[containerRef].kind # "empty"
         => ~effects[containers[containerRef].of].cancelled
    /\ Settled => containers[containerRef] \in {ChartNode(spec), ErrorNode(spec)}


(***************************************************************************)
(* Property of the chat page                                               *)
(***************************************************************************)
Received(h) == h.response # Undef \/ h.error # Undef

\* C27: while the message is blank no step adds a history item or sends a request;
\* a step that sends a request sends one and prepends one pending item; and a step
\* in which a request settles gives the item of its id exactly one of response and
\* error, leaves the other items as they were and sets isLoading to false.
C27_Lifecycle ==
  [][/\ Trim(message) = <<>> =>
          Len(history') <= Len(history) /\ calls' \subseteq calls
     /\ ~(calls' \subseteq calls) =>
          \E id \in calls' \ calls :
            /\ calls' = calls \cup {id}
            /\ Len(history') = Len(history) + 1
            /\ history'[1].id = id /\ ~Received(history'[1])
            /\ \A i \in DOMAIN history : history'[i + 1] = history[i]
     /\ \A id \in calls \ calls' :
          /\ \E i \in DOMAIN history' :
               /\ history'[i].id = id
               /\ (history'[i].response # Undef) # (history'[i].error # Undef)
          /\ DOMAIN history' = DOMAIN history
          /\ \A i \in DOMAIN history : history[i].id # id => history'[i] = history[i]
          /\ isLoading' = FALSE]_vars

====
